---- MODULE Spec2Model ----
(***************************************************************************)
(* A model of the two stateful components of @xhiti/local-ai:              *)
(*   - WorkerBridge (src/src/core/index.ts): request/response correlation  *)
(*     with a Web Worker, with timeouts, cancellation and dispose;         *)
(*   - ModelCache (src/src/core/ModelCache.ts): the IndexedDB model cache  *)
(*     with LRU eviction.                                                  *)
(* One JavaScript task or microtask (a handler run to completion) is one   *)
(* action; every await in the source is a point where other actions may    *)
(* interleave.                                                             *)
(***************************************************************************)
EXTENDS Integers, Sequences, FiniteSets, TLC

\* Number of execute() calls a behaviour makes.
MaxCalls == 2
\* Number of Worker objects (doInitialize runs) a behaviour creates.
MaxWorkers == 2
\* Number of disruptive events in a behaviour: timer expiries, cancellations,
\* dispose() calls, worker errors and failure responses.
MaxDisruptions == 2
\* The values of config.maxConcurrent the model is run with.
ConcurrencyChoices == {1, 2}

\* defaultConfig.retryAttempts (no statement of the bridge reads it).
retryAttempts == 2

\* defaultConfig.defaultTimeout, in ms.
defaultTimeout == 300000

Calls == 1..MaxCalls
\* Every id generateId can return: one per call, doInitialize run and abort.
MsgIds == 1..(MaxCalls + MaxWorkers + MaxDisruptions)
Attempts == 1..MaxWorkers

\* Number of model ids the cache is called with.
NumKeys == 2
\* config.maxSizeMB * 1024 * 1024, in bytes.
MaxBytes == 2
\* Largest value Date.now() takes.
MaxTime == 2

\* Number of messages the worker receives.
MaxMessages == 2
\* Number of times the pipeline loader calls progress_callback with a status
\* that is reported, per load.
MaxCallbacks == 1

WorkerMsgs == 1..MaxMessages
\* message.type: the cases of handleMessage, and a type it does not know.
MessageTypes == {"init", "load-model", "execute", "status", "cache-check",
                 "cache-clear", "dispose", "abort", "unknown"}
\* modelConfig.taskType of a load-model message: a case of the switch of
\* loadModel, or not.
TaskTypes == {"known", "unknown"}

\* Model ids; getAll() returns the rows in ascending key order.
Keys == 1..NumKeys
\* ArrayBuffers passed to store(): byte sequences of length 0 .. MaxBytes + 1.
Oversize == [i \in 1..(MaxBytes + 1) |-> 0]
Payloads == {<<>>, <<0>>, <<0, 0>>, Oversize}

Range(s) == {s[i] : i \in 1..Len(s)}

VARIABLES
    \* ---- WorkerBridge fields ----
    worker,            \* 0 = null, a = the Worker created by the a-th doInitialize
    pendingRequests,   \* keys of the Map pendingRequests
    messageQueue,      \* ids of the queued messages, head first
    isProcessing,
    messageIdCounter,
    isInitialized,
    initPromise,       \* 0 = null, a = the promise of the a-th doInitialize
    maxConcurrent,     \* config.maxConcurrent
    \* ---- promises, timers and callers ----
    attempts,          \* per doInitialize run: its promise, init message id, 30 s timer
    calls,             \* per execute() call: where it is, its id, signal and timer
    future,            \* per execute() call: the state of the promise it returned
    \* ---- the worker side ----
    inbox,             \* ids the live worker has received and not yet answered
    posted,            \* the request ids passed to worker.postMessage, in order
    aborts,            \* payload.targetId of every abort message posted
    \* ---- history ----
    firstEvent,        \* per call: the first settling event after registration
    disruptions,       \* number of disruptive events so far
    responded,         \* request ids whose terminal response the bridge has got
    \* ---- ModelCache fields and the object store 'models' ----
    cacheEnabled,      \* config.enabled
    db,                \* TRUE = an open IDBDatabase, FALSE = null
    cacheInitPromise,  \* "null", "pending", "resolved", "rejected"
    entries,           \* the rows of the object store: [modelId, data, metadata]
    accessLog,         \* the rows of the Map accessLog: [modelId, time]
    now,               \* Date.now()
    cc,                \* the cache call in progress
    \* ---- history of the cache ----
    ret,               \* what the last call returned, until the next call
    pre,               \* the rows getStats() gave ensureSpace in the last call
    evicted,           \* model ids ensureSpace deleted in the last call
    older,             \* per id last read by retrieve: the ids not accessed since
    preOlder,          \* older, when ensureSpace began in the last call
    lastStored,        \* per id: the bytes last passed to store(), while they
                       \* have not been deleted, cleared or evicted since
    closed,            \* close() was called and initialize() not since
    opening,           \* number of indexedDB.open requests in flight
    waiting,           \* a second cache call in progress, suspended at an await
    cleared,           \* since the last put: the number of rows the first
                       \* clear() removed (-1 = no clear()), and whether
                       \* clear() has run again
    \* ---- the worker script (src/src/worker/index.ts) ----
    pipelines,         \* TRUE = the transformers module, FALSE = null
    workerIsInitialized,  \* isInitialized of the worker
    loadedModels,      \* TRUE = the model is in the Map loadedModels
    handling,          \* per message: its type and where handleMessage is
    outbox             \* per message: what its handler passed to
                       \* self.postMessage, in order

bridgeVars == <<worker, pendingRequests, messageQueue, isProcessing,
                messageIdCounter, isInitialized, initPromise, maxConcurrent,
                attempts, calls, future, inbox, posted, aborts, firstEvent,
                responded, disruptions>>

cacheVars == <<cacheEnabled, db, cacheInitPromise, entries, accessLog, now, cc,
               ret, pre, evicted, older, preOlder, lastStored, closed, opening,
               waiting, cleared>>

workerVars == <<pipelines, workerIsInitialized, loadedModels, handling,
                outbox>>

vars == <<bridgeVars, cacheVars, workerVars>>

NoCall == [pc |-> "idle", wait |-> 0, id |-> 0, sig |-> "none",
           timeout |-> FALSE, timer |-> "none", onProgress |-> FALSE,
           progressCalls |-> 0]
NoAttempt == [state |-> "none", id |-> 0, timer |-> "none"]

BridgeInit ==
    /\ worker = 0
    /\ pendingRequests = {}
    /\ messageQueue = <<>>
    /\ isProcessing = FALSE
    /\ messageIdCounter = 0
    /\ isInitialized = FALSE
    /\ initPromise = 0
    /\ maxConcurrent \in ConcurrencyChoices
    /\ attempts = [a \in Attempts |-> NoAttempt]
    /\ calls = [c \in Calls |-> NoCall]
    /\ future = [c \in Calls |-> "none"]
    /\ inbox = {}
    /\ posted = <<>>
    /\ aborts = {}
    /\ firstEvent = [c \in Calls |-> "none"]
    /\ responded = {}
    /\ disruptions = 0

\* ------------------------------------------------------------------------
\* Helpers
\* ------------------------------------------------------------------------

\* A promise is settled by the first resolve/reject only.
settle(f, outcome) == IF f = "pending" THEN outcome ELSE f

\* A generateId whose counter starts again when there is no worker (after
\* dispose()).
generateId_Restarts == IF worker = 0 THEN 1 ELSE messageIdCounter + 1

\* generateId: the counter part of `msg_${Date.now()}_${++counter}`.
generateId == messageIdCounter + 1

RegisteredCalls == {c \in Calls : calls[c].pc = "reg"}
CallOf(id) == CHOOSE c \in RegisteredCalls : calls[c].id = id
IsRequestId(id) == \E c \in RegisteredCalls : calls[c].id = id

NumCalls == Cardinality({c \in Calls : calls[c].pc # "idle"})
NumAttempts == Cardinality({a \in Attempts : attempts[a].state # "none"})

\* The first event recorded for a call stays.
noteEvent(fe, c, ev) == IF fe[c] = "none" THEN [fe EXCEPT ![c] = ev] ELSE fe

\* A processQueue() that takes the newest message (pop() for shift()).
RECURSIVE processQueue_Lifo(_, _, _)
processQueue_Lifo(q, pend, w) ==
    IF isProcessing \/ Len(q) = 0 \/ w = 0
    THEN [queue |-> q, sent |-> <<>>]
    ELSE LET message == q[Len(q)]
             rest == SubSeq(q, 1, Len(q) - 1)
         IN  IF Cardinality(pend) < maxConcurrent
             THEN LET r == processQueue_Lifo(rest, pend, w)
                  IN  [queue |-> r.queue, sent |-> <<message>> \o r.sent]
             ELSE [queue |-> rest, sent |-> <<message>>]

\* processQueue(): one message is sent whenever the queue is non-empty and
\* a worker exists; the next ones only while pendingRequests.size is below
\* config.maxConcurrent.  Returns the remaining queue and the ids sent.
RECURSIVE processQueue(_, _, _)
processQueue(q, pend, w) ==
    IF isProcessing \/ Len(q) = 0 \/ w = 0
    THEN [queue |-> q, sent |-> <<>>]
    ELSE LET message == Head(q)
             rest == Tail(q)
         IN  IF Cardinality(pend) < maxConcurrent
             THEN LET r == processQueue(rest, pend, w)
                  IN  [queue |-> r.queue, sent |-> <<message>> \o r.sent]
             ELSE [queue |-> rest, sent |-> <<message>>]

\* A queueMessage that pushes the message twice.
queueMessage_Twice(q, id, pend, w) ==
    processQueue(Append(Append(q, id), id), pend, w)

\* queueMessage(): push, then processQueue().
queueMessage(q, id, pend, w) == processQueue(Append(q, id), pend, w)

\* ------------------------------------------------------------------------
\* WorkerBridge operations
\* ------------------------------------------------------------------------

\* doInitialize(): a new Worker, the init message and the 30 s timer.
doInitialize(a) ==
    /\ worker' = a
    /\ messageIdCounter' = generateId
    /\ attempts' = [attempts EXCEPT ![a] =
                       [state |-> "pending", id |-> generateId, timer |-> "armed"]]
    /\ inbox' = {generateId}
    /\ initPromise' = a

\* An initialize() without `if (this.initPromise) return this.initPromise`.
initializeStarts_NoSingleFlight == ~isInitialized

\* initialize(): whether it goes on to doInitialize(), past
\* `if (this.isInitialized) return` and `if (this.initPromise) return ...`.
initializeStarts == ~isInitialized /\ initPromise = 0

\* initialize() called by the application: it starts doInitialize only when
\* the bridge is neither initialized nor initializing, and otherwise
\* changes nothing.
InitializeCall ==
    /\ UNCHANGED <<cacheVars, workerVars>>
    /\ UNCHANGED disruptions
    /\ IF initializeStarts
       THEN /\ NumAttempts < MaxWorkers
            /\ doInitialize(NumAttempts + 1)
       ELSE UNCHANGED <<worker, messageIdCounter, attempts, inbox, initPromise>>
    /\ UNCHANGED <<pendingRequests, messageQueue, isProcessing, isInitialized,
                   maxConcurrent, calls, future, posted, aborts, firstEvent,
                   responded>>

\* execute(), up to `await this.initialize()`, with its options: the signal,
\* whether a timer will be set, and whether options.onProgress is given.
ExecuteOptions(sig, tmo, onp) ==
    /\ UNCHANGED <<cacheVars, workerVars>>
    /\ UNCHANGED disruptions
    /\ NumCalls < MaxCalls
    /\ LET c == NumCalls + 1
           call(w) == [pc |-> "await", wait |-> w, id |-> 0, sig |-> sig,
                       timeout |-> tmo, timer |-> "none", onProgress |-> onp,
                       progressCalls |-> 0]
       IN  /\ future' = [future EXCEPT ![c] = "pending"]
           /\ IF ~initializeStarts
              THEN /\ calls' = [calls EXCEPT ![c] =
                                  call(IF isInitialized THEN 0 ELSE initPromise)]
                   /\ UNCHANGED <<worker, messageIdCounter, attempts, inbox,
                                  initPromise>>
              ELSE /\ NumAttempts < MaxWorkers
                   /\ calls' = [calls EXCEPT ![c] = call(NumAttempts + 1)]
                   /\ doInitialize(NumAttempts + 1)
    /\ UNCHANGED <<pendingRequests, messageQueue, isProcessing, isInitialized,
                   maxConcurrent, posted, aborts, firstEvent, responded>>

\* execute() without options.onProgress.
ExecuteCall(sig, tmo) == ExecuteOptions(sig, tmo, FALSE)

\* The promise `await this.initialize()` of call c waits on: initialize()
\* returns at once when isInitialized, else the promise of a doInitialize.
awaited(c) == IF calls[c].wait = 0 THEN "resolved"
              ELSE attempts[calls[c].wait].state

\* A continuation of an `await` whose promise is settled is a microtask: it
\* runs before the event loop takes the next task (a worker message or error
\* event, a timer).  Only calls made by the application (execute, initialize,
\* dispose, AbortController.abort) can come between.
MicrotaskPending ==
    \E c \in Calls : calls[c].pc = "await" /\ awaited(c) # "pending"

\* execute(), after the await: the promise executor registers the request and
\* queues its message; a rejected initialization rejects the call.
ExecuteResume(c) ==
    /\ UNCHANGED <<cacheVars, workerVars>>
    /\ UNCHANGED disruptions
    /\ calls[c].pc = "await"
    /\ \/ /\ awaited(c) = "rejected"
          /\ calls' = [calls EXCEPT ![c].pc = "fail"]
          /\ future' = [future EXCEPT ![c] = settle(@, "rejInit")]
          /\ UNCHANGED <<messageIdCounter, pendingRequests, messageQueue,
                         inbox, posted>>
       \/ /\ awaited(c) = "resolved"
          /\ LET id == generateId
                 pend == pendingRequests \cup {id}
                 r == queueMessage(messageQueue, id, pend, worker)
             IN  /\ messageIdCounter' = id
                 /\ calls' = [calls EXCEPT ![c].pc = "reg", ![c].id = id,
                                 ![c].timer = IF calls[c].timeout
                                              THEN "armed" ELSE "none"]
                 /\ pendingRequests' = pend
                 /\ messageQueue' = r.queue
                 /\ inbox' = inbox \cup Range(r.sent)
                 /\ posted' = posted \o r.sent
          /\ UNCHANGED future
    /\ UNCHANGED <<worker, isProcessing, isInitialized, initPromise,
                   maxConcurrent, attempts, aborts, firstEvent, responded>>


\* A lookup that takes the oldest pending request, whatever the response's id.
pendingLookup_Oldest(id) ==
    IF pendingRequests = {} THEN 0
    ELSE CHOOSE p \in pendingRequests : \A q \in pendingRequests : p <= q

\* A lookup that falls back on the newest pending request when the
\* response's id is not in the table.
pendingLookup_Newest(id) ==
    IF id \in pendingRequests THEN id
    ELSE IF pendingRequests = {} THEN 0
    ELSE CHOOSE p \in pendingRequests : \A q \in pendingRequests : p >= q

\* handleWorkerMessage(): `this.pendingRequests.get(response.id)`; 0 = undefined.
pendingLookup(id) == IF id \in pendingRequests THEN id ELSE 0

\* handleWorkerMessage(), for a terminal response with id m: an id with no
\* pending request is logged and dropped; otherwise the timer is cleared, the
\* entry deleted, the promise settled and processQueue() called.
handleWorkerMessage(m, ok) ==
    /\ LET hit == pendingLookup(m)
       IN  IF hit = 0
           THEN /\ inbox' = inbox \ {m}
                /\ UNCHANGED <<pendingRequests, calls, future, messageQueue,
                               posted>>
           ELSE LET c == CallOf(hit)
                    pend == pendingRequests \ {m}
                    r == processQueue(messageQueue, pend, worker)
                IN  /\ calls' = [calls EXCEPT ![c].timer =
                                    IF @ = "armed" THEN "cleared" ELSE @]
                    /\ pendingRequests' = pend
                    /\ future' = [future EXCEPT ![c] =
                                     settle(@, IF ok THEN "resolved"
                                                     ELSE "rejRemote")]
                    /\ messageQueue' = r.queue
                    /\ inbox' = (inbox \ {m}) \cup Range(r.sent)
                    /\ posted' = posted \o r.sent

\* tempHandler of doInitialize, on the same event.
tempHandler(m, ok) ==
    /\ IF m = attempts[worker].id
       THEN /\ isInitialized' = (isInitialized \/ ok)
            /\ attempts' = [attempts EXCEPT ![worker].state =
                               IF @ = "pending"
                               THEN (IF ok THEN "resolved" ELSE "rejected")
                               ELSE @]
       ELSE UNCHANGED <<isInitialized, attempts>>

\* The worker posts the terminal response for message m (handleMessage in
\* src/src/worker/index.ts answers every message once) and the bridge handles
\* the event: worker.onmessage = handleWorkerMessage, then tempHandler while
\* the init message is unanswered.
WorkerRespond(m, ok) ==
    /\ UNCHANGED <<cacheVars, workerVars>>
    /\ IF ok THEN UNCHANGED disruptions ELSE disruptions < MaxDisruptions /\ disruptions' = disruptions + 1
    /\ ~MicrotaskPending
    /\ worker # 0
    /\ m \in inbox
    /\ firstEvent' = IF IsRequestId(m)
                     THEN noteEvent(firstEvent, CallOf(m),
                                    IF ok THEN "ok" ELSE "err")
                     ELSE firstEvent
    /\ responded' = IF IsRequestId(m) THEN responded \cup {m} ELSE responded
    /\ handleWorkerMessage(m, ok)
    /\ tempHandler(m, ok)
    /\ UNCHANGED <<worker, isProcessing, messageIdCounter, initPromise,
                   maxConcurrent, aborts>>

\* The ids of the abort messages the bridge has posted: generateId() is called
\* by doInitialize(), execute() and abort() only.
AbortMsgIds ==
    {m \in 1..messageIdCounter :
        ~IsRequestId(m) /\ \A a \in Attempts : attempts[a].id # m}

\* The worker answers an abort message ({ aborted: true }, success): the bridge
\* handles a response whose id is the abort message's, which no request has.
AbortRespond(m) ==
    /\ UNCHANGED <<cacheVars, workerVars>>
    /\ UNCHANGED disruptions
    /\ ~MicrotaskPending
    /\ worker # 0
    /\ m \in AbortMsgIds
    /\ handleWorkerMessage(m, TRUE)
    /\ tempHandler(m, TRUE)
    /\ UNCHANGED <<worker, isProcessing, messageIdCounter, initPromise,
                   maxConcurrent, aborts, firstEvent, responded>>

\* A lookup for progress events that takes any pending request.
progressLookup_Any(id) ==
    IF pendingRequests = {} THEN 0
    ELSE CHOOSE p \in pendingRequests : \A q \in pendingRequests : p <= q

\* handleWorkerMessage(), progress branch:
\* `this.pendingRequests.get(progress.id)`; 0 = undefined.
progressLookup(id) == IF id \in pendingRequests THEN id ELSE 0

\* The worker posts a progress event for message m, which it has received and
\* not answered yet, and the bridge handles it: handleWorkerMessage() calls
\* `pending.onProgress(progress)` when the id is pending and the request has
\* a callback, and returns.  (tempHandler compares the id with the init
\* message's, which is no request's.)
WorkerProgress(m) ==
    /\ UNCHANGED <<cacheVars, workerVars>>
    /\ UNCHANGED disruptions
    /\ ~MicrotaskPending
    /\ worker # 0
    /\ m \in inbox
    /\ IsRequestId(m)
    /\ LET hit == progressLookup(m)
       IN  IF hit # 0 /\ calls[CallOf(hit)].onProgress
           THEN /\ calls[CallOf(hit)].progressCalls < MaxCallbacks
                /\ calls' = [calls EXCEPT
                                ![CallOf(hit)].progressCalls = @ + 1]
           ELSE UNCHANGED calls
    /\ UNCHANGED <<worker, pendingRequests, messageQueue, isProcessing,
                   messageIdCounter, isInitialized, initPromise, maxConcurrent,
                   attempts, future, inbox, posted, aborts, firstEvent,
                   responded>>

\* worker.onerror: rejects the promise of the doInitialize that made the worker.
WorkerError ==
    /\ UNCHANGED <<cacheVars, workerVars>>
    /\ disruptions < MaxDisruptions /\ disruptions' = disruptions + 1
    /\ ~MicrotaskPending
    /\ worker # 0
    /\ attempts[worker].state = "pending"
    /\ attempts' = [attempts EXCEPT ![worker].state = "rejected"]
    /\ UNCHANGED <<worker, pendingRequests, messageQueue, isProcessing,
                   messageIdCounter, isInitialized, initPromise, maxConcurrent,
                   calls, future, inbox, posted, aborts, firstEvent, responded>>

\* The callback of the 30 s timer of doInitialize, which is never cleared:
\* `if (!this.isInitialized) reject(...)`.
InitTimerFires(a) ==
    /\ UNCHANGED <<cacheVars, workerVars>>
    /\ ~MicrotaskPending
    /\ attempts[a].timer = "armed"
    /\ attempts' = [attempts EXCEPT ![a].timer = "fired",
                       ![a].state = IF ~isInitialized /\ @ = "pending"
                                    THEN "rejected" ELSE @]
    /\ UNCHANGED <<worker, pendingRequests, messageQueue, isProcessing,
                   messageIdCounter, isInitialized, initPromise, maxConcurrent,
                   calls, future, inbox, posted, aborts, firstEvent, responded>>

\* The 30 s timer of doInitialize fires, as one of the disruptive events.
InitTimeout(a) ==
    /\ disruptions < MaxDisruptions /\ disruptions' = disruptions + 1
    /\ InitTimerFires(a)

\* A timeout callback that leaves the request in the table.
timeoutDelete_Keeps(id) == pendingRequests

\* The timeout callback of execute(): the table after `pendingRequests.delete(id)`.
timeoutDelete(id) == pendingRequests \ {id}

\* The request timer of call c fires.
RequestTimeout(c) ==
    /\ UNCHANGED <<cacheVars, workerVars>>
    /\ disruptions < MaxDisruptions /\ disruptions' = disruptions + 1
    /\ ~MicrotaskPending
    /\ calls[c].pc = "reg"
    /\ calls[c].timer = "armed"
    /\ calls' = [calls EXCEPT ![c].timer = "fired"]
    /\ pendingRequests' = timeoutDelete(calls[c].id)
    /\ future' = [future EXCEPT ![c] = settle(@, "rejTimeout")]
    /\ firstEvent' = noteEvent(firstEvent, c, "timeout")
    /\ UNCHANGED <<worker, messageQueue, isProcessing, messageIdCounter,
                   isInitialized, initPromise, maxConcurrent, attempts, inbox,
                   posted, aborts, responded>>

\* abort(id): the abort message is posted only while a worker exists.  The
\* worker answers it with a response whose id is in no table (the 'abort'
\* case of handleMessage), which handleWorkerMessage drops without changing
\* anything, so inbox does not keep abort messages.
abortPosts(w) == w # 0

\* An abort(id) that leaves the request in the table.
abortDelete_Keeps(id) == pendingRequests

\* abort(id): the table after `this.pendingRequests.delete(id)`.
abortDelete(id) == pendingRequests \ {id}

\* The AbortSignal passed to call c aborts.  The listener exists only when
\* the executor of execute() has run (pc = "reg") with the signal still live;
\* it runs abort(id) and then reject.
SignalAbort(c) ==
    /\ UNCHANGED <<cacheVars, workerVars>>
    /\ disruptions < MaxDisruptions /\ disruptions' = disruptions + 1
    /\ calls[c].sig = "live"
    /\ calls[c].pc \in {"await", "reg"}
    /\ IF calls[c].pc = "reg"
       THEN LET id == calls[c].id
            IN  /\ calls' = [calls EXCEPT ![c].sig = "aborted",
                                ![c].timer = IF id \in pendingRequests /\ @ = "armed"
                                             THEN "cleared" ELSE @]
                /\ pendingRequests' = abortDelete(id)
                /\ IF abortPosts(worker)
                   THEN /\ messageIdCounter' = generateId
                        /\ aborts' = aborts \cup {id}
                   ELSE UNCHANGED <<messageIdCounter, aborts>>
                /\ UNCHANGED inbox
                /\ future' = [future EXCEPT ![c] = settle(@, "rejAborted")]
                /\ firstEvent' = noteEvent(firstEvent, c, "abort")
       ELSE /\ calls' = [calls EXCEPT ![c].sig = "aborted"]
            /\ UNCHANGED <<pendingRequests, messageIdCounter, inbox, aborts,
                           future, firstEvent>>
    /\ UNCHANGED <<worker, messageQueue, isProcessing, isInitialized,
                   initPromise, maxConcurrent, attempts, posted, responded>>

\* A dispose() that drops the table without rejecting anything.
disposeRejects_None == {}

\* dispose(): the futures it rejects.
disposeRejects == {c \in RegisteredCalls : calls[c].id \in pendingRequests}

\* A dispose() that forgets `this.messageQueue = []`.
disposeQueue_Kept == messageQueue

\* dispose(): the queue after `this.messageQueue = []`.
disposeQueue == <<>>

\* dispose()
Dispose ==
    /\ UNCHANGED <<cacheVars, workerVars>>
    /\ disruptions < MaxDisruptions /\ disruptions' = disruptions + 1
    /\ calls' = [c \in Calls |->
                    IF c \in disposeRejects /\ calls[c].timer = "armed"
                    THEN [calls[c] EXCEPT !.timer = "cleared"] ELSE calls[c]]
    /\ future' = [c \in Calls |->
                    IF c \in disposeRejects
                    THEN settle(future[c], "rejDisposed") ELSE future[c]]
    /\ firstEvent' = [c \in Calls |->
                        IF c \in RegisteredCalls /\ firstEvent[c] = "none"
                        THEN "dispose" ELSE firstEvent[c]]
    /\ pendingRequests' = {}
    /\ messageQueue' = disposeQueue
    /\ worker' = 0
    /\ inbox' = {}
    /\ isInitialized' = FALSE
    /\ initPromise' = 0
    /\ UNCHANGED <<isProcessing, messageIdCounter, maxConcurrent, attempts,
                   posted, aborts, responded>>


\* ------------------------------------------------------------------------
\* ModelCache
\* ------------------------------------------------------------------------

NoCacheCall == [op |-> "none", pc |-> "idle", key |-> 0, data |-> <<>>,
                victims |-> <<>>, freed |-> 0, toFree |-> 0]
\* No bytes (a payload is a sequence of bytes 0).
NoData == <<-1>>
NoReturn == [op |-> "none", key |-> 0, status |-> "none", value |-> <<>>,
             found |-> FALSE, totalSize |-> 0, modelCount |-> 0]
NotCleared == [removed |-> -1, again |-> FALSE]

CacheInit ==
    /\ cacheEnabled \in BOOLEAN
    /\ db = FALSE
    /\ cacheInitPromise = "null"
    /\ entries = {}
    /\ accessLog = {}
    /\ now = 0
    /\ cc = NoCacheCall
    /\ ret = NoReturn
    /\ pre = <<>>
    /\ evicted = {}
    /\ older = [k \in Keys |-> {}]
    /\ preOlder = [k \in Keys |-> {}]
    /\ lastStored = [k \in Keys |-> NoData]
    /\ closed = FALSE
    /\ opening = 0
    /\ waiting = NoCacheCall
    /\ cleared = NotCleared

byteLength(data) == Len(data)

StoredIds(es) == {e.modelId : e \in es}
EntryOf(es, k) == CHOOSE e \in es : e.modelId = k

RECURSIVE SumSizes(_)
SumSizes(ms) == IF ms = <<>> THEN 0 ELSE Head(ms).size + SumSizes(Tail(ms))

\* store.getAll(): the rows in ascending key order, as getStats() maps them.
RECURSIVE statsModels(_)
statsModels(es) ==
    IF es = {} THEN <<>>
    ELSE LET e == CHOOSE x \in es : \A y \in es : x.modelId <= y.modelId
         IN  <<[modelId |-> e.modelId, size |-> e.fileSize,
                lastAccessed |-> e.lastAccessed]>> \o statsModels(es \ {e})

\* getStats().totalSize
totalSize(es) == SumSizes(statsModels(es))

RemoveAt(ms, i) == [j \in 1..(Len(ms) - 1) |-> IF j < i THEN ms[j] ELSE ms[j + 1]]

\* The same sort with the comparator reversed: most recently used first.
RECURSIVE sortedModels_Descending(_)
sortedModels_Descending(ms) ==
    IF ms = <<>> THEN <<>>
    ELSE LET i == CHOOSE i \in 1..Len(ms) :
                      /\ \A j \in 1..Len(ms) : ms[i].lastAccessed >= ms[j].lastAccessed
                      /\ \A j \in 1..(i - 1) : ms[j].lastAccessed < ms[i].lastAccessed
         IN  <<ms[i]>> \o sortedModels_Descending(RemoveAt(ms, i))

\* [...stats.models].sort((a, b) => a.lastAccessed - b.lastAccessed): ascending
\* lastAccessed; the sort is stable, so ties keep the key order.
RECURSIVE sortedModels(_)
sortedModels(ms) ==
    IF ms = <<>> THEN <<>>
    ELSE LET i == CHOOSE i \in 1..Len(ms) :
                      /\ \A j \in 1..Len(ms) : ms[i].lastAccessed <= ms[j].lastAccessed
                      /\ \A j \in 1..(i - 1) : ms[j].lastAccessed > ms[i].lastAccessed
         IN  <<ms[i]>> \o sortedModels(RemoveAt(ms, i))

\* An id is accessed (stored, read or deleted): it is no longer among the
\* ids "not accessed since" any retrieve.
touch(ol, k) == [b \in Keys |-> IF b = k THEN {} ELSE ol[b] \ {k}]

\* Date.now() advances.
Tick ==
    /\ now < MaxTime
    /\ now' = now + 1
    /\ UNCHANGED <<cacheEnabled, db, cacheInitPromise, entries, accessLog, cc,
                   ret, pre, evicted, older, preOlder>>
    /\ UNCHANGED <<lastStored, closed>>
    /\ UNCHANGED opening
    /\ UNCHANGED waiting
    /\ UNCHANGED cleared
    /\ UNCHANGED <<bridgeVars, workerVars>>

\* initialize(): whether it goes on to doInitialize(), past
\* `if (this.db) return` and `if (this.initPromise) return this.initPromise`.
cacheInitializeOpens == ~db /\ cacheInitPromise = "null"

\* store / retrieve / delete / clear, up to `await this.initialize()`;
\* initialize() opens the database unless it is open or being opened.
CacheCall(op, k, data) ==
    /\ cc.op = "none"
    /\ cc' = [NoCacheCall EXCEPT !.op = op, !.pc = "init", !.key = k,
                                  !.data = data]
    /\ cacheInitPromise' = IF cacheInitializeOpens
                           THEN "pending" ELSE cacheInitPromise
    /\ opening' = IF cacheInitializeOpens THEN opening + 1 ELSE opening
    /\ ret' = NoReturn
    /\ pre' = <<>>
    /\ evicted' = {}
    /\ preOlder' = [b \in Keys |-> {}]
    /\ UNCHANGED <<cacheEnabled, db, entries, accessLog, now, older>>
    /\ UNCHANGED <<lastStored, closed>>
    /\ UNCHANGED waiting
    /\ UNCHANGED cleared
    /\ UNCHANGED <<bridgeVars, workerVars>>

\* initialize() called by the application: it opens the database unless it
\* is open or being opened (or the open has failed: the promise is kept).
CacheInitializeCall ==
    /\ cacheInitPromise' = IF cacheInitializeOpens
                           THEN "pending" ELSE cacheInitPromise
    /\ opening' = IF cacheInitializeOpens THEN opening + 1 ELSE opening
    /\ closed' = FALSE
    /\ UNCHANGED <<cacheEnabled, db, entries, accessLog, now, cc, ret, pre,
                   evicted, older, preOlder, lastStored>>
    /\ UNCHANGED waiting
    /\ UNCHANGED cleared
    /\ UNCHANGED <<bridgeVars, workerVars>>

\* request.onsuccess of indexedDB.open
OpenSuccess ==
    /\ cacheInitPromise = "pending"
    /\ db' = TRUE
    /\ cacheInitPromise' = "resolved"
    /\ UNCHANGED <<cacheEnabled, entries, accessLog, now, cc, ret, pre, evicted,
                   older, preOlder>>
    /\ UNCHANGED <<lastStored, closed>>
    /\ opening' = opening - 1
    /\ UNCHANGED waiting
    /\ UNCHANGED cleared
    /\ UNCHANGED <<bridgeVars, workerVars>>

\* request.onerror of indexedDB.open
OpenError ==
    /\ cacheInitPromise = "pending"
    /\ cacheInitPromise' = "rejected"
    /\ UNCHANGED <<cacheEnabled, db, entries, accessLog, now, cc, ret, pre,
                   evicted, older, preOlder>>
    /\ UNCHANGED <<lastStored, closed>>
    /\ opening' = opening - 1
    /\ UNCHANGED waiting
    /\ UNCHANGED cleared
    /\ UNCHANGED <<bridgeVars, workerVars>>

\* A store() without `if (!this.config.enabled) return`.
disabledReturns_ReadsOnly(op) == op \in {"retrieve", "has"}

\* The calls that return at once when config.enabled is false: store and
\* retrieve check it, and has() is answered by retrieve().
disabledReturns(op) == op \in {"store", "retrieve", "has"}

\* The call goes on after `await this.initialize()`: a rejected open rejects
\* the call; store and retrieve return at once when the cache is disabled;
\* otherwise the call opens its first transaction.
CacheResume ==
    /\ cc.pc = "init"
    /\ db \/ cacheInitPromise = "rejected"
    /\ IF ~db
       THEN /\ cc' = NoCacheCall
            /\ ret' = [NoReturn EXCEPT !.op = cc.op, !.key = cc.key,
                                       !.status = "initError"]
            /\ UNCHANGED <<evicted, preOlder, pre>>
       ELSE IF disabledReturns(cc.op) /\ ~cacheEnabled
       THEN /\ cc' = NoCacheCall
            /\ ret' = [NoReturn EXCEPT !.op = cc.op, !.key = cc.key,
                                       !.status = "ok"]
            /\ UNCHANGED <<evicted, preOlder, pre>>
       ELSE /\ cc' = [cc EXCEPT !.pc = IF cc.op = "store" THEN "stats" ELSE "txn"]
            /\ preOlder' = IF cc.op = "store" THEN older ELSE preOlder
            /\ UNCHANGED <<ret, evicted, pre>>
    /\ UNCHANGED <<cacheEnabled, db, cacheInitPromise, entries, accessLog, now,
                   older>>
    /\ UNCHANGED <<lastStored, closed>>
    /\ UNCHANGED opening
    /\ UNCHANGED waiting
    /\ UNCHANGED cleared
    /\ UNCHANGED <<bridgeVars, workerVars>>

\* ensureSpace(), from the result of getStats() to the start of the loop.
StoreStats ==
    /\ cc.op = "store" /\ cc.pc = "stats"
    /\ LET models == statsModels(entries)
           requiredBytes == byteLength(cc.data)
           availableBytes == MaxBytes - SumSizes(models)
       IN  /\ pre' = models
           /\ cc' = IF availableBytes >= requiredBytes
                    THEN [cc EXCEPT !.pc = "put"]
                    ELSE [cc EXCEPT !.pc = "evict",
                                    !.victims = sortedModels(models),
                                    !.freed = 0,
                                    !.toFree = requiredBytes - availableBytes]
    /\ UNCHANGED <<cacheEnabled, db, cacheInitPromise, entries, accessLog, now,
                   ret, evicted, older, preOlder>>
    /\ UNCHANGED <<lastStored, closed>>
    /\ UNCHANGED opening
    /\ UNCHANGED waiting
    /\ UNCHANGED cleared
    /\ UNCHANGED <<bridgeVars, workerVars>>

\* A loop that ends only when no model is left.
evictionEnds_Exhausts(c) == c.victims = <<>>

\* ensureSpace(): the loop over sortedModels ends when the models are used up
\* or at `if (freedBytes >= bytesToFree) break`.
evictionEnds(c) == c.victims = <<>> \/ c.freed >= c.toFree

\* One round of the loop of ensureSpace(): `await this.delete(model.modelId)`.
StoreEvict ==
    /\ cc.op = "store" /\ cc.pc = "evict"
    /\ ~evictionEnds(cc)
    /\ LET model == Head(cc.victims)
       IN  /\ entries' = {e \in entries : e.modelId # model.modelId}
           /\ accessLog' = {r \in accessLog : r.modelId # model.modelId}
           /\ cc' = [cc EXCEPT !.victims = Tail(@), !.freed = @ + model.size]
           /\ evicted' = evicted \cup {model.modelId}
    /\ UNCHANGED <<cacheEnabled, db, cacheInitPromise, now, ret, pre, older,
                   preOlder>>
    /\ lastStored' = [lastStored EXCEPT ![Head(cc.victims).modelId] = NoData]
    /\ UNCHANGED closed
    /\ UNCHANGED opening
    /\ UNCHANGED waiting
    /\ UNCHANGED cleared
    /\ UNCHANGED <<bridgeVars, workerVars>>

\* An entry built without the bytes.
newEntry_NoData(modelId, data, t) ==
    [modelId |-> modelId, data |-> <<>>, fileSize |-> byteLength(data),
     lastAccessed |-> t]

\* store(): `const entry: CachedModelEntry = {...}`.
newEntry(modelId, data, t) ==
    [modelId |-> modelId, data |-> data, fileSize |-> byteLength(data),
     lastAccessed |-> t]

\* store() has come back from ensureSpace() (enough room, or the loop over
\* the victims has ended) and opens the readwrite transaction of the put.
AtPut ==
    /\ cc.op = "store"
    /\ \/ cc.pc = "put"
       \/ cc.pc = "evict" /\ evictionEnds(cc)

\* store(), after ensureSpace(): the entry is built with Date.now() and put;
\* transaction.oncomplete sets accessLog and resolves.
StorePut ==
    /\ AtPut
    /\ LET entry == newEntry(cc.key, cc.data, now)
       IN  /\ entries' = {e \in entries : e.modelId # cc.key} \cup {entry}
           /\ accessLog' = {r \in accessLog : r.modelId # cc.key}
                              \cup {[modelId |-> cc.key, time |-> now]}
    /\ older' = touch(older, cc.key)
    /\ ret' = [NoReturn EXCEPT !.op = "store", !.key = cc.key, !.status = "ok"]
    /\ cc' = NoCacheCall
    /\ UNCHANGED <<cacheEnabled, db, cacheInitPromise, now, pre, evicted,
                   preOlder>>
    /\ lastStored' = [lastStored EXCEPT ![cc.key] = cc.data]
    /\ UNCHANGED closed
    /\ UNCHANGED opening
    /\ UNCHANGED waiting
    /\ cleared' = NotCleared
    /\ UNCHANGED <<bridgeVars, workerVars>>

\* store(): the put request fails; its error event reaches
\* transaction.onerror, which rejects; the transaction is aborted, so no row
\* changes and transaction.oncomplete never runs.
StorePutError ==
    /\ AtPut
    /\ ret' = [NoReturn EXCEPT !.op = "store", !.key = cc.key,
                               !.status = "storeError"]
    /\ cc' = NoCacheCall
    /\ UNCHANGED <<cacheEnabled, db, cacheInitPromise, entries, accessLog, now,
                   pre, evicted, older, preOlder, lastStored, closed, opening,
                   waiting, cleared>>
    /\ UNCHANGED <<bridgeVars, workerVars>>

\* store(): the transaction is aborted when it commits (the quota is
\* exceeded): the put request had succeeded, so no error event is fired, only
\* the transaction's abort event.  store() sets oncomplete and onerror and
\* no onabort: no handler runs and the promise it returned stays pending.
StorePutAbort ==
    /\ AtPut
    /\ cc' = [cc EXCEPT !.pc = "aborted"]
    /\ UNCHANGED <<cacheEnabled, db, cacheInitPromise, entries, accessLog, now,
                   ret, pre, evicted, older, preOlder, lastStored, closed,
                   opening, waiting, cleared>>
    /\ UNCHANGED <<bridgeVars, workerVars>>

\* A retrieve that puts the entry back as it was read.
touched_Not(entry, t) == entry

\* retrieve(): `entry.metadata.lastAccessed = Date.now()` before store.put.
touched(entry, t) == [entry EXCEPT !.lastAccessed = t]

\* retrieve(): request.onsuccess of store.get(modelId).
RetrieveGet ==
    /\ cc.op = "retrieve" /\ cc.pc = "txn"
    /\ IF cc.key \in StoredIds(entries)
       THEN LET entry == EntryOf(entries, cc.key)
            IN  /\ entries' = (entries \ {entry}) \cup {touched(entry, now)}
                /\ accessLog' = {r \in accessLog : r.modelId # cc.key}
                                   \cup {[modelId |-> cc.key, time |-> now]}
                /\ older' = [touch(older, cc.key) EXCEPT
                                ![cc.key] = StoredIds(entries) \ {cc.key}]
                /\ ret' = [NoReturn EXCEPT !.op = "retrieve", !.key = cc.key,
                              !.status = "ok", !.value = entry.data,
                              !.found = TRUE]
       ELSE /\ ret' = [NoReturn EXCEPT !.op = "retrieve", !.key = cc.key,
                          !.status = "ok"]
            /\ UNCHANGED <<entries, accessLog, older>>
    /\ cc' = NoCacheCall
    /\ UNCHANGED <<cacheEnabled, db, cacheInitPromise, now, pre, evicted,
                   preOlder>>
    /\ UNCHANGED <<lastStored, closed>>
    /\ UNCHANGED opening
    /\ UNCHANGED waiting
    /\ UNCHANGED cleared
    /\ UNCHANGED <<bridgeVars, workerVars>>

\* A has() that tests the bytes for truth of their length.
hasReturn_NonEmpty(data) == data # NoData /\ byteLength(data) > 0

\* has(): `data !== null`, data being what retrieve() resolved with (NoData
\* stands for null).
hasReturn(data) == data # NoData

\* has(): `await this.retrieve(modelId)` reaches request.onsuccess of
\* store.get(modelId), which touches the entry it finds, and has() returns
\* whether retrieve() gave bytes.
HasGet ==
    /\ cc.op = "has" /\ cc.pc = "txn"
    /\ IF cc.key \in StoredIds(entries)
       THEN LET entry == EntryOf(entries, cc.key)
            IN  /\ entries' = (entries \ {entry}) \cup {touched(entry, now)}
                /\ accessLog' = {r \in accessLog : r.modelId # cc.key}
                                   \cup {[modelId |-> cc.key, time |-> now]}
                /\ older' = [touch(older, cc.key) EXCEPT
                                ![cc.key] = StoredIds(entries) \ {cc.key}]
                /\ ret' = [NoReturn EXCEPT !.op = "has", !.key = cc.key,
                              !.status = "ok",
                              !.found = hasReturn(entry.data)]
       ELSE /\ ret' = [NoReturn EXCEPT !.op = "has", !.key = cc.key,
                          !.status = "ok", !.found = hasReturn(NoData)]
            /\ UNCHANGED <<entries, accessLog, older>>
    /\ cc' = NoCacheCall
    /\ UNCHANGED <<cacheEnabled, db, cacheInitPromise, now, pre, evicted,
                   preOlder, lastStored, closed, opening, waiting, cleared>>
    /\ UNCHANGED <<bridgeVars, workerVars>>

\* delete(): request.onsuccess of store.delete(modelId); it resolves true.
DeleteDone ==
    /\ cc.op = "delete" /\ cc.pc = "txn"
    /\ entries' = {e \in entries : e.modelId # cc.key}
    /\ accessLog' = {r \in accessLog : r.modelId # cc.key}
    /\ older' = touch(older, cc.key)
    /\ ret' = [NoReturn EXCEPT !.op = "delete", !.key = cc.key, !.status = "ok",
                  !.found = TRUE]
    /\ cc' = NoCacheCall
    /\ UNCHANGED <<cacheEnabled, db, cacheInitPromise, now, pre, evicted,
                   preOlder>>
    /\ lastStored' = [lastStored EXCEPT ![cc.key] = NoData]
    /\ UNCHANGED closed
    /\ UNCHANGED opening
    /\ UNCHANGED waiting
    /\ UNCHANGED cleared
    /\ UNCHANGED <<bridgeVars, workerVars>>

\* A clear that leaves the row with the largest key.
clearRows_KeepsLast(es) == {e \in es : e.modelId = NumKeys}

\* clear(): the rows of the object store after store.clear().
clearRows(es) == {}

\* clear(): request.onsuccess of store.clear().
ClearDone ==
    /\ cc.op = "clear" /\ cc.pc = "txn"
    /\ entries' = clearRows(entries)
    /\ accessLog' = {}
    /\ older' = [k \in Keys |-> {}]
    /\ ret' = [NoReturn EXCEPT !.op = "clear", !.status = "ok"]
    /\ cc' = NoCacheCall
    /\ UNCHANGED <<cacheEnabled, db, cacheInitPromise, now, pre, evicted,
                   preOlder>>
    /\ lastStored' = [k \in Keys |-> NoData]
    /\ UNCHANGED closed
    /\ UNCHANGED opening
    /\ UNCHANGED waiting
    /\ cleared' = IF cleared = NotCleared
                  THEN [removed |-> Cardinality(entries), again |-> FALSE]
                  ELSE [cleared EXCEPT !.again = TRUE]
    /\ UNCHANGED <<bridgeVars, workerVars>>

\* getStats() called by the application: request.onsuccess of store.getAll().
StatsGet ==
    /\ cc.op = "getStats" /\ cc.pc = "txn"
    /\ LET models == statsModels(entries)
       IN  ret' = [NoReturn EXCEPT !.op = "getStats", !.status = "ok",
                                   !.totalSize = SumSizes(models),
                                   !.modelCount = Len(models)]
    /\ cc' = NoCacheCall
    /\ UNCHANGED <<cacheEnabled, db, cacheInitPromise, entries, accessLog, now,
                   pre, evicted, older, preOlder, lastStored, closed, opening,
                   waiting, cleared>>
    /\ UNCHANGED <<bridgeVars, workerVars>>

\* close(), between calls and not while the database is being opened.
Close ==
    /\ cc.op = "none"
    /\ db \/ cacheInitPromise \in {"resolved", "rejected"}
    /\ db' = FALSE
    /\ cacheInitPromise' = "null"
    /\ ret' = [NoReturn EXCEPT !.op = "close", !.status = "ok"]
    /\ UNCHANGED <<cacheEnabled, entries, accessLog, now, cc, pre, evicted,
                   older, preOlder>>
    /\ closed' = TRUE
    /\ UNCHANGED lastStored
    /\ UNCHANGED opening
    /\ UNCHANGED waiting
    /\ UNCHANGED cleared
    /\ UNCHANGED <<bridgeVars, workerVars>>

\* ModelCache.reset() and then getInstance(config), between calls: the old
\* instance is closed and a new one is constructed with its own
\* config.enabled, no database handle and an empty accessLog; the rows of the
\* database persist.
ResetInstance(enabled) ==
    /\ cc.op = "none"
    /\ cacheInitPromise # "pending"
    /\ cacheEnabled' = enabled
    /\ db' = FALSE
    /\ cacheInitPromise' = "null"
    /\ accessLog' = {}
    /\ ret' = NoReturn
    /\ closed' = FALSE
    /\ UNCHANGED <<entries, now, cc, pre, evicted, older, preOlder, lastStored,
                   opening, waiting, cleared>>
    /\ UNCHANGED <<bridgeVars, workerVars>>

\* A call issued while another is in progress (the application does not
\* await the first): it runs up to its `await this.initialize()`, as CacheCall.
ConcurrentCall(op, k, data) ==
    /\ cc.op # "none"
    /\ waiting.op = "none"
    /\ waiting' = [NoCacheCall EXCEPT !.op = op, !.pc = "init", !.key = k,
                                       !.data = data]
    /\ cacheInitPromise' = IF cacheInitializeOpens
                           THEN "pending" ELSE cacheInitPromise
    /\ opening' = IF cacheInitializeOpens THEN opening + 1 ELSE opening
    /\ UNCHANGED <<cacheEnabled, db, entries, accessLog, now, cc, ret, pre,
                   evicted, older, preOlder, lastStored, closed, cleared>>
    /\ UNCHANGED <<bridgeVars, workerVars>>

\* Every step of a call ends at an await (of initialize(), of a transaction
\* or of a request), and the event loop runs the handler of either call
\* next: cc is the call whose handler runs next.
Interleave ==
    /\ waiting.op # "none"
    /\ cc' = waiting
    /\ waiting' = cc
    /\ UNCHANGED <<cacheEnabled, db, cacheInitPromise, entries, accessLog, now,
                   ret, pre, evicted, older, preOlder, lastStored, closed,
                   opening, cleared>>
    /\ UNCHANGED <<bridgeVars, workerVars>>

\* ------------------------------------------------------------------------
\* The worker script
\* ------------------------------------------------------------------------

NoMessage == [type |-> "none", pc |-> "none", task |-> "known", callbacks |-> 0]

WorkerInit ==
    /\ pipelines = FALSE
    /\ workerIsInitialized = FALSE
    /\ loadedModels = FALSE
    /\ handling = [m \in WorkerMsgs |-> NoMessage]
    /\ outbox = [m \in WorkerMsgs |-> <<>>]

\* reportProgress(messageId, ...): posts a ProgressUpdate with id messageId.
reportProgress(o, messageId) ==
    [o EXCEPT ![messageId] = Append(@, [id |-> messageId, kind |-> "progress"])]

\* A handleMessage whose catch block posts nothing.
respond_SuccessOnly(o, id, success) ==
    IF success
    THEN [o EXCEPT ![id] = Append(@, [id |-> id, kind |-> "ok"])]
    ELSE o

\* handleMessage: the WorkerResponse { id, success: true, data } at the end of
\* the try block, or { id, success: false, error } in the catch block.
respond(o, id, success) ==
    [o EXCEPT ![id] = Append(@, [id |-> id,
                                 kind |-> IF success THEN "ok" ELSE "err"])]

NumReceived == Cardinality({m \in WorkerMsgs : handling[m].pc # "none"})

\* loadModel, from the return of `await initializeTransformers()` to
\* `await pipelineFn(...)`: the second progress report, then the switch on
\* taskType, whose default case throws.
afterImport(m, h, o) ==
    IF h.task = "unknown"
    THEN [h |-> [h EXCEPT !.pc = "done"],
          o |-> respond(reportProgress(o, m), m, FALSE)]
    ELSE [h |-> [h EXCEPT !.pc = "pipeline"], o |-> reportProgress(o, m)]

\* self.onmessage = handleMessage: the handler runs up to its first await
\* of something not yet settled (`await initializeTransformers()` returns at
\* once when pipelines is set; loadModel returns at once for a loaded model;
\* executeTask throws at once when no model is loaded); the cases without an
\* await, and the default case, which throws, run to the response.
HandleMessage(type, task) ==
    /\ NumReceived < MaxMessages
    /\ LET m == NumReceived + 1
           h == [NoMessage EXCEPT !.type = type, !.task = task]
           done == [h EXCEPT !.pc = "done"]
       IN  CASE type = "init" ->
                  IF pipelines
                  THEN /\ handling' = [handling EXCEPT ![m] = done]
                       /\ outbox' = respond(outbox, m, TRUE)
                       /\ workerIsInitialized' = TRUE
                       /\ UNCHANGED loadedModels
                  ELSE /\ handling' = [handling EXCEPT ![m] =
                                          [h EXCEPT !.pc = "import"]]
                       /\ UNCHANGED <<outbox, workerIsInitialized, loadedModels>>
             [] type = "load-model" ->
                  /\ IF loadedModels
                     THEN /\ handling' = [handling EXCEPT ![m] = done]
                          /\ outbox' = respond(outbox, m, TRUE)
                     ELSE IF pipelines
                     THEN LET r == afterImport(m, h, reportProgress(outbox, m))
                          IN  /\ handling' = [handling EXCEPT ![m] = r.h]
                              /\ outbox' = r.o
                     ELSE /\ handling' = [handling EXCEPT ![m] =
                                             [h EXCEPT !.pc = "import"]]
                          /\ outbox' = reportProgress(outbox, m)
                  /\ UNCHANGED <<workerIsInitialized, loadedModels>>
             [] type = "execute" ->
                  /\ IF loadedModels
                     THEN /\ handling' = [handling EXCEPT ![m] =
                                             [h EXCEPT !.pc = "exec"]]
                          /\ UNCHANGED outbox
                     ELSE /\ handling' = [handling EXCEPT ![m] = done]
                          /\ outbox' = respond(outbox, m, FALSE)
                  /\ UNCHANGED <<workerIsInitialized, loadedModels>>
             [] type \in {"status", "cache-check", "abort"} ->
                  /\ handling' = [handling EXCEPT ![m] = done]
                  /\ outbox' = respond(outbox, m, TRUE)
                  /\ UNCHANGED <<workerIsInitialized, loadedModels>>
             [] type \in {"cache-clear", "dispose"} ->
                  /\ handling' = [handling EXCEPT ![m] = done]
                  /\ outbox' = respond(outbox, m, TRUE)
                  /\ loadedModels' = FALSE
                  /\ UNCHANGED workerIsInitialized
             [] OTHER ->
                  /\ handling' = [handling EXCEPT ![m] = done]
                  /\ outbox' = respond(outbox, m, FALSE)
                  /\ UNCHANGED <<workerIsInitialized, loadedModels>>
    /\ UNCHANGED pipelines
    /\ UNCHANGED <<bridgeVars, cacheVars>>

\* initializeTransformers(): the dynamic import settles.  On success
\* pipelines is set; the init case then sets isInitialized and responds, and
\* loadModel goes on.  On failure initializeTransformers throws, and the
\* catch block of handleMessage responds.
ImportDone(m, ok) ==
    /\ handling[m].pc = "import"
    /\ ok \/ ~pipelines
    /\ pipelines' = (pipelines \/ ok)
    /\ IF ~ok
       THEN /\ handling' = [handling EXCEPT ![m].pc = "done"]
            /\ outbox' = respond(outbox, m, FALSE)
            /\ UNCHANGED workerIsInitialized
       ELSE IF handling[m].type = "init"
       THEN /\ handling' = [handling EXCEPT ![m].pc = "done"]
            /\ outbox' = respond(outbox, m, TRUE)
            /\ workerIsInitialized' = TRUE
       ELSE LET r == afterImport(m, handling[m], outbox)
            IN  /\ handling' = [handling EXCEPT ![m] = r.h]
                /\ outbox' = r.o
                /\ UNCHANGED workerIsInitialized
    /\ UNCHANGED loadedModels
    /\ UNCHANGED <<bridgeVars, cacheVars>>

\* progress_callback of loadModel, called by the pipeline loader while it
\* loads, with status 'downloading' or 'loading'.
PipelineProgress(m) ==
    /\ handling[m].pc = "pipeline"
    /\ handling[m].callbacks < MaxCallbacks
    /\ handling' = [handling EXCEPT ![m].callbacks = @ + 1]
    /\ outbox' = reportProgress(outbox, m)
    /\ UNCHANGED <<pipelines, workerIsInitialized, loadedModels>>
    /\ UNCHANGED <<bridgeVars, cacheVars>>

\* loadModel: `await pipelineFn(...)` settles: the 'ready' report,
\* loadedModels.set and the response, or the error and the catch block.
PipelineDone(m, ok) ==
    /\ handling[m].pc = "pipeline"
    /\ handling' = [handling EXCEPT ![m].pc = "done"]
    /\ outbox' = IF ok THEN respond(reportProgress(outbox, m), m, TRUE)
                       ELSE respond(outbox, m, FALSE)
    /\ loadedModels' = (loadedModels \/ ok)
    /\ UNCHANGED <<pipelines, workerIsInitialized>>
    /\ UNCHANGED <<bridgeVars, cacheVars>>

\* executeTask: `await pipeline(...)` settles.
ExecDone(m, ok) ==
    /\ handling[m].pc = "exec"
    /\ handling' = [handling EXCEPT ![m].pc = "done"]
    /\ outbox' = respond(outbox, m, ok)
    /\ UNCHANGED <<pipelines, workerIsInitialized, loadedModels>>
    /\ UNCHANGED <<bridgeVars, cacheVars>>

WorkerNext ==
    \/ \E type \in MessageTypes, task \in TaskTypes : HandleMessage(type, task)
    \/ \E m \in WorkerMsgs, ok \in BOOLEAN : ImportDone(m, ok)
    \/ \E m \in WorkerMsgs : PipelineProgress(m)
    \/ \E m \in WorkerMsgs, ok \in BOOLEAN : PipelineDone(m, ok)
    \/ \E m \in WorkerMsgs, ok \in BOOLEAN : ExecDone(m, ok)

\* The cache, its calls issued one at a time, the database opened by the
\* first call and kept open.
CacheNext ==
    \/ Tick
    \/ \E k \in Keys, data \in Payloads : CacheCall("store", k, data)
    \/ \E k \in Keys : CacheCall("retrieve", k, <<>>)
    \/ \E k \in Keys : CacheCall("has", k, <<>>)
    \/ \E k \in Keys : CacheCall("delete", k, <<>>)
    \/ CacheCall("clear", 0, <<>>)
    \/ CacheCall("getStats", 0, <<>>)
    \/ OpenSuccess
    \/ CacheResume
    \/ StoreStats
    \/ StoreEvict
    \/ StorePut
    \/ RetrieveGet
    \/ HasGet
    \/ DeleteDone
    \/ ClearDone
    \/ StatsGet

\* The cache with its whole life cycle: initialize() and close() called by
\* the application, and an open that fails.
CacheLifecycleNext ==
    \/ CacheNext
    \/ CacheInitializeCall
    \/ OpenError
    \/ Close

\* Stores into a cache whose instance is replaced, by one with caching
\* enabled or by one with caching disabled.
CacheResetNext ==
    \/ Tick
    \/ \E k \in Keys, data \in Payloads : CacheCall("store", k, data)
    \/ OpenSuccess
    \/ CacheResume
    \/ StoreStats
    \/ StoreEvict
    \/ StorePut
    \/ \E enabled \in BOOLEAN : ResetInstance(enabled)

\* The cache on a medium that can reject the write of a store.
CacheFaultNext ==
    \/ CacheNext
    \/ StorePutError
    \/ StorePutAbort

\* The payloads that fit the cache on their own.
FittingPayloads == {data \in Payloads : byteLength(data) <= MaxBytes}

\* Two calls in progress at once, store and delete, with payloads that fit.
ConcurrentNext ==
    \/ \E k \in Keys, data \in FittingPayloads : CacheCall("store", k, data)
    \/ \E k \in Keys : CacheCall("delete", k, <<>>)
    \/ \E k \in Keys, data \in FittingPayloads :
          ConcurrentCall("store", k, data)
    \/ \E k \in Keys : ConcurrentCall("delete", k, <<>>)
    \/ Interleave
    \/ OpenSuccess
    \/ CacheResume
    \/ StoreStats
    \/ StoreEvict
    \/ StorePut
    \/ DeleteDone

\* options.timeout of execute(): not given, 0, or a positive number of ms.
Undefined == -1
OptionTimeouts == {Undefined, 0, 1}
\* options.signal of execute(): not given, or a signal that is already
\* aborted when execute() is called.
OptionSignals == {"none", "aborted"}

\* execute(): `options?.timeout ?? this.config.defaultTimeout`.
effectiveTimeout(t) == IF t = Undefined THEN defaultTimeout ELSE t

\* execute(): `timeout ? setTimeout(...) : null`: whether a timer is set.
timerSet(timeout) == timeout # 0

SignalChoices == {"live"}
TimeoutChoices == {TRUE}

Next ==
    \/ InitializeCall
    \/ \E sig \in SignalChoices, tmo \in TimeoutChoices : ExecuteCall(sig, tmo)
    \/ \E c \in Calls : ExecuteResume(c)
    \/ \E m \in MsgIds, ok \in BOOLEAN : WorkerRespond(m, ok)
    \/ WorkerError
    \/ \E a \in Attempts : InitTimeout(a)
    \/ \E c \in Calls : RequestTimeout(c)
    \/ \E c \in Calls : SignalAbort(c)
    \/ Dispose

\* The bridge, with the cache left as constructed (and enabled).
Init == BridgeInit /\ CacheInit /\ cacheEnabled /\ WorkerInit

\* The cache, with the bridge left as constructed (default maxConcurrent).
CacheSpecInit == BridgeInit /\ maxConcurrent = 1 /\ CacheInit /\ WorkerInit

Spec == Init /\ [][Next]_vars

CacheSpec == CacheSpecInit /\ [][CacheNext]_vars

CacheLifecycleSpec == CacheSpecInit /\ [][CacheLifecycleNext]_vars

\* The worker script, with the bridge and the cache left as constructed.
WorkerSpecInit == Init /\ maxConcurrent = 1

WorkerSpec == WorkerSpecInit /\ [][WorkerNext]_vars

CacheResetSpec == CacheSpecInit /\ [][CacheResetNext]_vars

CacheFaultSpec == CacheSpecInit /\ [][CacheFaultNext]_vars

\* The enabled cache with two calls in progress at once.
ConcurrentInit == CacheSpecInit /\ cacheEnabled

ConcurrentSpec == ConcurrentInit /\ [][ConcurrentNext]_vars

\* The bridge as constructed, and the cache as constructed.
BridgeUntouched ==
    /\ worker = 0 /\ messageIdCounter = 0 /\ disruptions = 0
    /\ \A c \in Calls : calls[c] = NoCall
CacheUntouched ==
    /\ ~db /\ cacheInitPromise = "null" /\ cc = NoCacheCall /\ ret = NoReturn
    /\ now = 0 /\ ~closed /\ opening = 0 /\ waiting = NoCacheCall
    /\ cleared = NotCleared

\* Both components with their life cycles: initialization, its failures,
\* dispose() and close(), around the calls that initialize (request timers,
\* cancellation and the clock are left to Spec and CacheSpec).  The two
\* components share no state, so a behaviour runs one of them and leaves the
\* other as constructed: the bridge (with the cache enabled), or the cache
\* (with maxConcurrent = 1).
BothInit ==
    BridgeInit /\ CacheInit /\ (cacheEnabled \/ maxConcurrent = 1) /\ WorkerInit

BridgeTurn == cacheEnabled /\ CacheUntouched
CacheTurn == maxConcurrent = 1 /\ BridgeUntouched

BothNext ==
    \/ BridgeTurn /\ InitializeCall
    \/ BridgeTurn /\ \E sig \in SignalChoices, tmo \in TimeoutChoices :
                        ExecuteCall(sig, tmo)
    \/ BridgeTurn /\ \E c \in Calls : ExecuteResume(c)
    \/ BridgeTurn /\ \E m \in MsgIds, ok \in BOOLEAN : WorkerRespond(m, ok)
    \/ BridgeTurn /\ WorkerError
    \/ BridgeTurn /\ \E a \in Attempts : InitTimeout(a)
    \/ BridgeTurn /\ Dispose
    \/ CacheTurn /\ \E k \in Keys, data \in Payloads : CacheCall("store", k, data)
    \/ CacheTurn /\ \E k \in Keys : CacheCall("retrieve", k, <<>>)
    \/ CacheTurn /\ \E k \in Keys : CacheCall("delete", k, <<>>)
    \/ CacheTurn /\ CacheCall("clear", 0, <<>>)
    \/ CacheTurn /\ CacheInitializeCall
    \/ CacheTurn /\ OpenSuccess
    \/ CacheTurn /\ OpenError
    \/ CacheTurn /\ CacheResume
    \/ CacheTurn /\ StoreStats
    \/ CacheTurn /\ StoreEvict
    \/ CacheTurn /\ StorePut
    \/ CacheTurn /\ RetrieveGet
    \/ CacheTurn /\ DeleteDone
    \/ CacheTurn /\ ClearDone
    \/ CacheTurn /\ Close

BothSpec == BothInit /\ [][BothNext]_vars


\* The worker answers every message it has received, and the continuation of
\* an await whose promise is settled runs.
LiveSpec ==
    /\ Init
    /\ [][Next]_vars
    /\ \A c \in Calls : WF_vars(ExecuteResume(c))
    /\ \A m \in MsgIds : WF_vars(WorkerRespond(m, TRUE))

\* execute() with each value of its options, on a bridge that is not
\* disposed of.
OptionsNext ==
    \/ \E sig \in OptionSignals, t \in OptionTimeouts :
          ExecuteCall(sig, timerSet(effectiveTimeout(t)))
    \/ \E c \in Calls : ExecuteResume(c)
    \/ \E m \in MsgIds, ok \in BOOLEAN : WorkerRespond(m, ok)
    \/ \E c \in Calls : RequestTimeout(c)

OptionsSpec == Init /\ [][OptionsNext]_vars

\* The terminal responses of the worker as the bridge receives them (to
\* requests, to the init message and to abort messages), with requests that
\* time out or are cancelled.
ResponseNext ==
    \/ \E sig \in SignalChoices, tmo \in TimeoutChoices : ExecuteCall(sig, tmo)
    \/ \E c \in Calls : ExecuteResume(c)
    \/ \E m \in MsgIds, ok \in BOOLEAN : WorkerRespond(m, ok)
    \/ \E m \in MsgIds : AbortRespond(m)
    \/ \E c \in Calls : RequestTimeout(c)
    \/ \E c \in Calls : SignalAbort(c)

ResponseSpec == Init /\ [][ResponseNext]_vars

\* The progress events of the worker as the bridge receives them, for
\* requests with and without options.onProgress, pending or timed out.
ProgressNext ==
    \/ \E onp \in BOOLEAN : ExecuteOptions("none", TRUE, onp)
    \/ \E c \in Calls : ExecuteResume(c)
    \/ \E m \in MsgIds, ok \in BOOLEAN : WorkerRespond(m, ok)
    \/ \E m \in MsgIds : WorkerProgress(m)
    \/ \E c \in Calls : RequestTimeout(c)

ProgressSpec == Init /\ [][ProgressNext]_vars

\* Initialization and dispose(), with every 30 s timer free to fire.
InitLiveNext ==
    \/ InitializeCall
    \/ \E sig \in SignalChoices, tmo \in TimeoutChoices : ExecuteCall(sig, tmo)
    \/ \E c \in Calls : ExecuteResume(c)
    \/ \E m \in MsgIds, ok \in BOOLEAN : WorkerRespond(m, ok)
    \/ WorkerError
    \/ \E a \in Attempts : InitTimerFires(a) /\ UNCHANGED disruptions
    \/ Dispose

\* The worker answers every message it has received, the continuation of an
\* await whose promise is settled runs, and every timer set fires.
InitLiveSpec ==
    /\ Init
    /\ [][InitLiveNext]_vars
    /\ \A c \in Calls : WF_vars(ExecuteResume(c))
    /\ \A m \in MsgIds : WF_vars(WorkerRespond(m, TRUE))
    /\ \A a \in Attempts : WF_vars(InitTimerFires(a) /\ UNCHANGED disruptions)

\* ------------------------------------------------------------------------
\* Properties
\* ------------------------------------------------------------------------

\* What the event that comes first for a request makes of its future.
Outcome(ev) ==
    CASE ev = "ok" -> "resolved"
      [] ev = "err" -> "rejRemote"
      [] ev = "timeout" -> "rejTimeout"
      [] ev = "abort" -> "rejAborted"
      [] ev = "dispose" -> "rejDisposed"
      [] OTHER -> "pending"

\* C1: the future of every registered request is pending until the first of
\* {terminal response, timeout, cancellation, dispose} for its id, and from
\* then on it holds the outcome of that first event, whatever comes later.
C1_SettledOnceByFirstEvent ==
    \A c \in RegisteredCalls : future[c] = Outcome(firstEvent[c])

\* C1 witness: a request rejected by its timeout whose terminal response
\* arrived afterwards.
C1_Witness ==
    \E c \in RegisteredCalls :
        /\ firstEvent[c] = "timeout"
        /\ calls[c].id \in responded

\* Requests transmitted to the worker and still awaiting a terminal response.
InFlight == pendingRequests \cap Range(posted)

\* C2: at most maxConcurrent requests are in flight.
C2_InFlightBounded == Cardinality(InFlight) <= maxConcurrent

\* C4: request messages are posted in the order they were enqueued.  The
\* executor of execute() generates the id and pushes the message in one
\* synchronous run, so ids order the enqueues: the posted ids increase, and
\* no message is posted while one enqueued before it still waits.
C4_PostedInEnqueueOrder ==
    /\ \A i, j \in 1..Len(posted) : i < j => posted[i] < posted[j]
    /\ \A a \in Range(messageQueue), b \in Range(posted) : b < a

\* C4 witness: two requests, enqueued one after the other, have both been
\* posted.
C4_Witness ==
    \E a, b \in RegisteredCalls :
        /\ calls[a].id < calls[b].id
        /\ calls[a].id \in Range(posted)
        /\ calls[b].id \in Range(posted)

\* C5: every registered request is eventually transmitted and eventually
\* settles, given that the worker answers what it receives.
C5_EveryRequestSentAndSettled ==
    \A c \in Calls :
        /\ (calls[c].pc = "reg") ~> (calls[c].id \in Range(posted))
        /\ (calls[c].pc = "reg") ~> (future[c] # "pending")

\* C7: a terminal response for a pending id settles that request and no
\* other: its timer is cleared, it leaves the table, its future is resolved
\* or rejected with the remote error; every other call keeps its future and
\* its timer.
C7_ResponseSettlesItsRequestOnly ==
    [][\A m \in MsgIds, ok \in BOOLEAN :
          (m \in pendingRequests /\ m \in inbox /\ WorkerRespond(m, ok)) =>
              LET b == CallOf(m)
              IN  /\ pendingRequests' = pendingRequests \ {m}
                  /\ calls[b].timer = "armed" => calls'[b].timer = "cleared"
                  /\ future'[b] = IF ok THEN "resolved" ELSE "rejRemote"
                  /\ \A a \in Calls \ {b} :
                        /\ future'[a] = future[a]
                        /\ calls'[a].timer = calls[a].timer]_vars

\* C7 witness: B, registered after A, has been resolved by its response while
\* A is still pending with its timer armed.
C7_Witness ==
    \E a, b \in RegisteredCalls :
        /\ calls[a].id < calls[b].id
        /\ firstEvent[b] = "ok" /\ future[b] = "resolved"
        /\ calls[a].id \in pendingRequests /\ calls[a].id \in Range(posted)
        /\ calls[a].timer = "armed"

\* C8: a request whose timer fires first is out of the table and rejected
\* with the timeout error; a terminal response that arrives afterwards
\* changes no table, queue, timer or future.
C8_TimeoutThenLateResponse ==
    /\ [](\A c \in RegisteredCalls :
             firstEvent[c] = "timeout" =>
                 /\ calls[c].id \notin pendingRequests
                 /\ future[c] = "rejTimeout")
    /\ [][\A m \in MsgIds, ok \in BOOLEAN :
             (m \in inbox /\ IsRequestId(m)
                 /\ firstEvent[CallOf(m)] = "timeout"
                 /\ WorkerRespond(m, ok)) =>
                    UNCHANGED <<pendingRequests, messageQueue, calls, future,
                                posted>>]_vars

\* C8 witness: a timed-out request whose response has arrived since.
C8_Witness ==
    \E c \in RegisteredCalls :
        /\ firstEvent[c] = "timeout"
        /\ future[c] = "rejTimeout"
        /\ calls[c].id \in Range(posted)
        /\ calls[c].id \in responded

\* C9: a cancellation that fires while the request is pending removes it from
\* the table, clears its timer, posts an abort message naming its id and
\* rejects the future with the cancellation error.
C9_AbortPostsAndRejects ==
    \A c \in RegisteredCalls :
        firstEvent[c] = "abort" =>
            /\ calls[c].id \notin pendingRequests
            /\ calls[c].timer # "armed"
            /\ calls[c].id \in aborts
            /\ future[c] = "rejAborted"

\* Ids of the rows getStats() returned to the store in progress (or last run).
PreIds == {pre[i].modelId : i \in 1..Len(pre)}

\* C3: after a store that returns successfully, the stored sizes sum to at
\* most the configured maximum.
C3_StoreKeepsTotalWithinMax ==
    (cc.op = "none" /\ ret.op = "store" /\ ret.status = "ok")
        => totalSize(entries) <= MaxBytes

\* C6 (as stated): a store evicts in ascending lastAccessed order: an entry
\* is evicted only if every entry with a strictly smaller lastAccessed is
\* evicted too, and when the store returns, an entry B that had been retrieved
\* is among the evicted only if every entry not accessed since that retrieve
\* is too.
C6_RetrievedOutlivesUntouched ==
    /\ \A i, j \in 1..Len(pre) :
          (pre[i].modelId \in evicted
              /\ pre[j].lastAccessed < pre[i].lastAccessed)
            => pre[j].modelId \in evicted
    /\ (cc.op = "none" /\ ret.op = "store")
          => \A b \in evicted : (preOlder[b] \cap PreIds) \subseteq evicted

\* C6: a store evicts in ascending lastAccessed order, entries with the same
\* lastAccessed in key order: an entry is evicted only if every entry with a
\* strictly smaller lastAccessed, and every entry with the same lastAccessed
\* and a smaller key, is evicted too; a retrieve that finds B leaves B with a
\* lastAccessed at least as large as that of every entry.
C6_EvictsAscendingLastAccessed ==
    /\ \A i, j \in 1..Len(pre) :
          (pre[i].modelId \in evicted
              /\ \/ pre[j].lastAccessed < pre[i].lastAccessed
                 \/ /\ pre[j].lastAccessed = pre[i].lastAccessed
                    /\ pre[j].modelId < pre[i].modelId)
            => pre[j].modelId \in evicted
    /\ (cc.op = "none" /\ ret.op = "retrieve" /\ ret.found)
          => \A e \in entries :
                e.lastAccessed <= EntryOf(entries, ret.key).lastAccessed

\* C6 witness: a store has returned after evicting an entry A and keeping an
\* entry B that was retrieved after A's last access.
C6_Witness ==
    /\ cc.op = "none" /\ ret.op = "store"
    /\ \E i, j \in 1..Len(pre) :
          /\ pre[i].modelId \in evicted
          /\ pre[j].modelId \notin evicted
          /\ pre[i].lastAccessed < pre[j].lastAccessed
          /\ pre[i].modelId \in preOlder[pre[j].modelId]

\* The state dispose() leaves.
Disposed ==
    /\ worker = 0
    /\ pendingRequests = {}
    /\ messageQueue = <<>>
    /\ ~isInitialized
    /\ initPromise = 0

\* C10: dispose(), in any state, rejects every request in the table with the
\* 'disposed' error, empties the table and the queue and terminates the
\* worker; on a disposed bridge it changes nothing.
C10_DisposeRejectsAllAndIsIdempotent ==
    [][Dispose =>
          /\ \A c \in RegisteredCalls :
                calls[c].id \in pendingRequests => future'[c] = "rejDisposed"
          /\ pendingRequests' = {}
          /\ messageQueue' = <<>>
          /\ worker' = 0 /\ inbox' = {}
          /\ Disposed =>
                UNCHANGED <<worker, pendingRequests, messageQueue, isProcessing,
                            messageIdCounter, isInitialized, initPromise,
                            attempts, calls, future, inbox, posted>>]_vars

\* C10 witness: dispose() has rejected a pending request and left the bridge
\* disposed.
C10_Witness ==
    /\ Disposed
    /\ \E c \in RegisteredCalls :
          firstEvent[c] = "dispose" /\ future[c] = "rejDisposed"

\* C11: a store of data larger than the maximum capacity evicts nothing and
\* writes nothing: no store in progress with such data has evicted an entry,
\* and no entry larger than the maximum is ever stored.
C11_OversizeStoreRejected ==
    /\ (cc.op = "store" /\ byteLength(cc.data) > MaxBytes) => evicted = {}
    /\ \A e \in entries : e.fileSize <= MaxBytes

\* C12: with caching enabled, a retrieve of a key whose last store has not
\* been followed by a store, delete or clear returns the bytes that were
\* passed to that store.
C12_StoreThenRetrieveReturnsBytes ==
    (cacheEnabled /\ cc.op = "none" /\ ret.op = "retrieve"
        /\ ret.status = "ok" /\ lastStored[ret.key] # NoData)
      => (ret.found /\ ret.value = lastStored[ret.key])

\* C12 witness: a retrieve has returned stored bytes of length 1 or more,
\* with a payload of length 0 stored under another key.
C12_Witness ==
    /\ cacheEnabled /\ cc.op = "none" /\ ret.op = "retrieve" /\ ret.found
    /\ lastStored[ret.key] # NoData
    /\ Len(ret.value) >= 1
    /\ \E k \in Keys : lastStored[k] = <<>>

\* The ids given to init messages and to requests so far.
StartedAttempts == {a \in Attempts : attempts[a].state # "none"}
IssuedIds == {attempts[a].id : a \in StartedAttempts}
                \cup {calls[c].id : c \in RegisteredCalls}

\* C13: every id generateId returns is new: the ids of init messages and of
\* requests are pairwise distinct and at most the counter, and an id that
\* appears in a step is larger than the counter was (so than every id given
\* before, abort messages included), also after dispose() and a new
\* initialization.
C13_IdsNeverReused ==
    /\ [](/\ \A a, b \in StartedAttempts :
                a # b => attempts[a].id # attempts[b].id
          /\ \A c, d \in RegisteredCalls : c # d => calls[c].id # calls[d].id
          /\ \A a \in StartedAttempts, c \in RegisteredCalls :
                attempts[a].id # calls[c].id
          /\ \A id \in IssuedIds : id <= messageIdCounter)
    /\ [][/\ messageIdCounter' >= messageIdCounter
          /\ \A id \in IssuedIds' \ IssuedIds : id > messageIdCounter]_vars

\* C13 witness: a request registered before a dispose() and one registered
\* after the initialization that followed it.
C13_Witness ==
    /\ worker = 2
    /\ \E c, d \in RegisteredCalls :
          /\ calls[c].id < attempts[2].id
          /\ calls[d].id > attempts[2].id
          /\ firstEvent[c] = "dispose"

\* The handshake of the current initPromise has failed.
HandshakeFailed ==
    ~isInitialized /\ initPromise # 0 /\ attempts[initPromise].state = "rejected"

\* C14: after a failed handshake the next initialize() (here the one made by
\* execute()) starts a new attempt, with a new worker and a pending promise,
\* instead of returning the failure.
C14_InitializeRetriesAfterFailure ==
    [][\A sig \in SignalChoices, tmo \in TimeoutChoices :
          (ExecuteCall(sig, tmo) /\ HandshakeFailed /\ NumAttempts < MaxWorkers)
            => /\ initPromise' # initPromise
               /\ worker' # worker
               /\ attempts'[initPromise'].state = "pending"]_vars

\* The bridge after dispose(): no worker, not initialized, no initPromise
\* (the counter shows that a worker had been created).
AfterDispose ==
    worker = 0 /\ ~isInitialized /\ initPromise = 0 /\ messageIdCounter > 0

\* C15: an execute() made after dispose() and before any initialize() is
\* rejected at once: it creates no worker, starts no handshake, sends
\* nothing, and the promise it returns does not stay pending.
C15_ExecuteAfterDisposeFailsFast ==
    [][\A sig \in SignalChoices, tmo \in TimeoutChoices :
          (ExecuteCall(sig, tmo) /\ AfterDispose)
            => /\ worker' = 0 /\ initPromise' = 0 /\ inbox' = inbox
               /\ future'[NumCalls + 1] \notin {"none", "pending"}]_vars

\* C16: after close() and until initialize() is called again, the database
\* stays closed, no call opens it, and every store, retrieve, delete or clear
\* fails with a 'not initialized' error.
C16_CallsAfterCloseFail ==
    closed =>
        /\ ~db /\ cacheInitPromise = "null"
        /\ (cc.op = "none" /\ ret.op \in {"store", "retrieve", "delete", "clear"})
              => ret.status = "notInitialized"

\* C17 (the bridge): initialize() after dispose() creates a new worker and
\* starts a new handshake, and the bridge it makes ready is as after a first
\* initialization: every request in the table has been handed to the worker
\* and nothing waits in the queue.
C17_ReinitializedBridgeAsNew ==
    /\ [][(InitializeCall /\ AfterDispose)
            => /\ worker' = NumAttempts + 1
               /\ initPromise' = worker'
               /\ attempts'[worker'].state = "pending"
               /\ attempts'[worker'].id \in inbox']_vars
    /\ [](worker # 0 /\ isInitialized
            => /\ messageQueue = <<>>
               /\ pendingRequests \subseteq Range(posted))

C18_CacheJoined ==
    cc.pc = "init" /\ cacheInitPromise = "pending" /\ opening = 1 /\ ~closed

\* C19: delete(key) returns true exactly when an entry for key existed (and
\* the call removed it) and false when the key was absent; it never fails
\* for a missing key.
C19_DeleteReturnsWhetherRemoved ==
    [][DeleteDone =>
          /\ ret'.status = "ok"
          /\ ret'.found = (cc.key \in StoredIds(entries))
          /\ cc.key \notin StoredIds(entries')]_vars

\* C20: a retrieve that returns with the cache disabled, or for a key that is
\* not stored, returns null and changes no entry; one that finds the key
\* returns its bytes and, in the same step, sets its lastAccessed to now,
\* which is never less than it was, and changes no other entry.
C20_RetrieveReadsAndTouches ==
    /\ [][(CacheResume /\ cc.op = "retrieve" /\ db /\ ~cacheEnabled)
            => /\ ret'.status = "ok" /\ ~ret'.found /\ ret'.value = <<>>
               /\ entries' = entries]_vars
    /\ [][(RetrieveGet /\ cc.key \notin StoredIds(entries))
            => /\ ret'.status = "ok" /\ ~ret'.found /\ ret'.value = <<>>
               /\ entries' = entries]_vars
    /\ [][(RetrieveGet /\ cc.key \in StoredIds(entries))
            => LET old == EntryOf(entries, cc.key)
                   new == EntryOf(entries', cc.key)
               IN  /\ ret'.found /\ ret'.value = old.data
                   /\ new = [old EXCEPT !.lastAccessed = now]
                   /\ new.lastAccessed >= old.lastAccessed
                   /\ entries' \ {new} = entries \ {old}]_vars

\* C20 witness: a retrieve has found a key and moved its lastAccessed to a
\* later time than that of another entry.
C20_Witness ==
    /\ cc.op = "none" /\ ret.op = "retrieve" /\ ret.found
    /\ \E e \in entries : e.modelId = ret.key /\ e.lastAccessed = now /\ now > 0
    /\ \E e \in entries : e.modelId # ret.key /\ e.lastAccessed < now

\* C21: size check, eviction and insert of a store are one transaction with
\* respect to other store and delete calls: whatever the interleaving of two
\* calls in progress at once, when all calls have returned the stored sizes
\* sum to at most the maximum (every payload fits the cache on its own).
C21_ConcurrentStoresWithinMax ==
    (cc.op = "none" /\ waiting.op = "none")
        => totalSize(entries) <= MaxBytes

\* C22: after clear(), and until the next store, getStats() reports
\* totalSize 0 and modelCount 0 whatever was stored before (no row and no
\* accessLog entry is left), and a clear() that follows a clear() changes
\* nothing of the cache.
C22_ClearEmptiesAndIsIdempotent ==
    /\ [](cleared # NotCleared => entries = {} /\ accessLog = {})
    /\ []((cc.op = "none" /\ ret.op = "getStats" /\ cleared # NotCleared)
            => (ret.status = "ok" /\ ret.totalSize = 0 /\ ret.modelCount = 0))
    /\ [][(ClearDone /\ cleared # NotCleared)
            => UNCHANGED <<cacheEnabled, db, cacheInitPromise, entries,
                           accessLog>>]_vars

\* C22 witness: clear() removed one row or more, clear() ran again, and
\* getStats() has returned since.
C22_Witness ==
    /\ cleared.removed >= 1 /\ cleared.again
    /\ cc.op = "none" /\ ret.op = "getStats"

\* C23: has(key) returns true exactly when retrieve(key) made in the same
\* state would return bytes: false when the cache is disabled or the key is
\* not stored, true when it is stored, bytes of length 0 included.  It
\* touches like retrieve: the entry it finds gets lastAccessed = now and no
\* other entry changes, so that the entry is no longer the first the next
\* eviction removes when another entry was accessed earlier.
C23_HasIsRetrieveWithTouch ==
    /\ [][(CacheResume /\ cc.op = "has" /\ db /\ ~cacheEnabled)
            => /\ ret'.status = "ok" /\ ~ret'.found
               /\ entries' = entries]_vars
    /\ [][(HasGet /\ cc.key \notin StoredIds(entries))
            => /\ ret'.status = "ok" /\ ~ret'.found
               /\ entries' = entries]_vars
    /\ [][(HasGet /\ cc.key \in StoredIds(entries))
            => LET old == EntryOf(entries, cc.key)
                   new == EntryOf(entries', cc.key)
               IN  /\ ret'.status = "ok" /\ ret'.found
                   /\ new = [old EXCEPT !.lastAccessed = now]
                   /\ entries' \ {new} = entries \ {old}
                   /\ (\E e \in entries' : e.lastAccessed < now)
                         => Head(sortedModels(statsModels(entries'))).modelId
                                # cc.key]_vars

\* C23 witness: has() has returned true for stored bytes of length 0 and
\* moved the entry's lastAccessed past that of another entry.
C23_Witness ==
    /\ cc.op = "none" /\ ret.op = "has" /\ ret.found
    /\ \E e \in entries :
          e.modelId = ret.key /\ e.lastAccessed = now /\ e.data = <<>>
    /\ \E e \in entries : e.modelId # ret.key /\ e.lastAccessed < now

\* C24: a failed open rejects initialize(), and the next initialize(), or
\* the next store or retrieve (which initialize first), opens the database
\* anew instead of returning the earlier failure.
C24_CacheInitializeRetriesAfterFailure ==
    /\ [][OpenError => (cacheInitPromise' = "rejected" /\ ~db')]_vars
    /\ [][(~db /\ cacheInitPromise = "rejected"
             /\ (CacheInitializeCall
                   \/ \E op \in {"store", "retrieve"}, k \in Keys,
                         data \in Payloads : CacheCall(op, k, data)))
            => (cacheInitPromise' = "pending" /\ opening' = opening + 1)]_vars

\* The backing store has rejected the write of a store call.
WriteRejected ==
    \/ cc.op = "store" /\ cc.pc = "aborted"
    \/ cc.op = "none" /\ ret.op = "store" /\ ret.status = "storeError"

\* C25: when the backing store rejects the write of a store call, the call
\* is rejected with the storage error, the key is not stored unless it was
\* before, and every entry left is a row the call found, with the bytes last
\* stored under its key and the same size and lastAccessed.
C25_RejectedWriteFailsCleanly ==
    WriteRejected =>
        /\ cc.op = "none" /\ ret.op = "store" /\ ret.status = "storeError"
        /\ ret.key \notin PreIds => ret.key \notin StoredIds(entries)
        /\ \A e \in entries :
              /\ e.data = lastStored[e.modelId]
              /\ [modelId |-> e.modelId, size |-> e.fileSize,
                  lastAccessed |-> e.lastAccessed] \in Range(pre)

\* The number of times the request with this id was passed to postMessage.
Sends(id) == Cardinality({i \in 1..Len(posted) : posted[i] = id})

C27_FailedRequestIsRetried ==
    [][\A m \in MsgIds :
          (m \in pendingRequests /\ m \in inbox /\ Sends(m) <= retryAttempts
              /\ WorkerRespond(m, FALSE))
            => /\ future'[CallOf(m)] = "pending"
               /\ m \in pendingRequests']_vars

\* C28: with caching disabled, store() returns successfully and writes no
\* entry, evicts none and changes no lastAccessed: it returns from its first
\* step with the rows and the accessLog as they were, and never gets to the
\* size check, the eviction or the put.
C28_DisabledStoreIsNoOp ==
    /\ [][(cc.op = "store" /\ db /\ ~cacheEnabled /\ CacheResume)
            => /\ ret'.op = "store" /\ ret'.status = "ok"
               /\ cc' = NoCacheCall
               /\ entries' = entries /\ accessLog' = accessLog]_vars
    /\ []((~cacheEnabled /\ cc.op = "store") => cc.pc = "init")

\* C28 witness: a store has returned from a disabled cache that is full of
\* rows written when caching was enabled.
C28_Witness ==
    /\ ~cacheEnabled
    /\ cc.op = "none" /\ ret.op = "store" /\ ret.status = "ok"
    /\ entries # {} /\ totalSize(entries) = MaxBytes

Terminals(m) == {i \in 1..Len(outbox[m]) : outbox[m][i].kind # "progress"}

\* C29: for every message it receives, whatever its type, the worker posts
\* one terminal response, never a second, with the id of the message as
\* every progress event has, and no progress event after it: a handler that
\* has ended has posted exactly one, as its last message, and one that has
\* not ended has posted none.
C29_OneTerminalResponseAfterProgress ==
    \A m \in WorkerMsgs :
        /\ \A i \in 1..Len(outbox[m]) : outbox[m][i].id = m
        /\ Cardinality(Terminals(m)) <= 1
        /\ handling[m].pc = "done" <=> Terminals(m) = {Len(outbox[m])}
        /\ handling[m].pc # "done" => Terminals(m) = {}

\* C29 witness: a load-model message answered with success after four
\* progress events, and a message of an unknown type answered with an error.
C29_Witness ==
    \E m, n \in WorkerMsgs :
        /\ handling[m].type = "load-model" /\ handling[m].pc = "done"
        /\ Len(outbox[m]) = 5 /\ outbox[m][5].kind = "ok"
        /\ handling[n].type = "unknown" /\ outbox[n] = <<[id |-> n, kind |-> "err"]>>

\* C30: every initialize() settles: the promise of each doInitialize run is
\* eventually resolved or rejected (by the init response, a worker error or
\* its 30 s timer), also when dispose() is called during the handshake and a
\* later initialize() succeeds; and no execute() stays at its
\* `await this.initialize()`.
C30_InitializeEventuallySettles ==
    /\ \A a \in Attempts :
          (attempts[a].state = "pending") ~> (attempts[a].state # "pending")
    /\ \A c \in Calls : (calls[c].pc = "await") ~> (calls[c].pc # "await")

\* C31: a request that has left the pending table (settled by cancellation,
\* timeout or dispose) has no entry in the outbound queue, and if its message
\* had not been transmitted it is never transmitted afterwards.
C31_SettledRequestLeavesQueue ==
    /\ [](\A c \in RegisteredCalls :
             calls[c].id \notin pendingRequests
                => calls[c].id \notin Range(messageQueue))
    /\ [][\A c \in RegisteredCalls :
             (calls[c].id \notin pendingRequests
                 /\ calls[c].id \notin Range(posted))
               => calls[c].id \notin Range(posted')]_vars

\* C32: every request registered by execute has a deadline, whatever
\* options.timeout is, 0 included: while its future is pending its timer is
\* set, so that a request the worker never answers is rejected with the
\* timeout error.
C32_EveryRequestHasDeadline ==
    \A c \in RegisteredCalls :
        future[c] = "pending" => calls[c].timer = "armed"

\* C40: a call of execute whose cancellation signal is already aborted is
\* rejected with the cancellation error and its message is never transmitted:
\* once the call is past its wait for initialization, its future is the
\* cancellation rejection and its id is not among the posted messages.
C40_AbortedSignalRejectsCall ==
    \A c \in Calls :
        (calls[c].sig = "aborted" /\ calls[c].pc = "reg")
            => /\ future[c] = "rejAborted"
               /\ calls[c].id \notin Range(posted)

\* C33: once the 30 s handshake timer has fired and rejected initialize(),
\* a success response that arrives later for that init message leaves
\* isInitialized false.
C33_LateInitResponseIgnored ==
    [][\A m \in MsgIds :
          (/\ worker # 0
           /\ ~isInitialized
           /\ m = attempts[worker].id
           /\ attempts[worker].state = "rejected"
           /\ attempts[worker].timer = "fired"
           /\ WorkerRespond(m, TRUE))
             => ~isInitialized']_vars

\* C34: a request id is in the pending table exactly while execute has
\* registered it and its future is unsettled; the table holds registered ids
\* only, and an id that has left the table never enters it again.
C34_PendingTableMatchesFutures ==
    /\ [](\A c \in RegisteredCalls :
             calls[c].id \in pendingRequests <=> future[c] = "pending")
    /\ [](pendingRequests \subseteq {calls[c].id : c \in RegisteredCalls})
    /\ [][\A c \in RegisteredCalls :
             calls[c].id \notin pendingRequests
                => calls[c].id \notin pendingRequests']_vars

\* A cancelled request has left the table while another is still pending.
C34_Witness ==
    \E c, d \in RegisteredCalls :
        /\ future[c] = "rejAborted" /\ calls[c].id \notin pendingRequests
        /\ future[d] = "pending" /\ calls[d].id \in pendingRequests

\* C35: a terminal response whose id matches no pending request (the request
\* timed out or was cancelled, or the id is an abort message's or the init
\* message's) settles no future and leaves the pending table, the request
\* timers and the queue unchanged; a response that arrives afterwards for a
\* pending request still settles that request and removes it from the table.
C35_UnmatchedResponseDiscarded ==
    /\ [][\A m \in MsgIds, ok \in BOOLEAN :
             (m \notin pendingRequests
                 /\ (WorkerRespond(m, ok) \/ AbortRespond(m)))
               => UNCHANGED <<pendingRequests, messageQueue, calls, future,
                              posted>>]_vars
    /\ [][\A m \in MsgIds, ok \in BOOLEAN :
             (m \in pendingRequests /\ WorkerRespond(m, ok))
               => /\ m \notin pendingRequests'
                  /\ future'[CallOf(m)] = IF ok THEN "resolved"
                                                ELSE "rejRemote"]_vars

\* The response to a cancelled or timed-out request has been delivered and
\* dropped while another request was pending, and that request's response
\* then resolved it.
C35_Witness ==
    \E c, d \in RegisteredCalls :
        /\ future[c] \in {"rejTimeout", "rejAborted"}
        /\ calls[c].id < calls[d].id
        /\ responded = {calls[c].id, calls[d].id}
        /\ future[d] = "resolved"
        /\ aborts # {}

\* C36: a progress event whose id is pending calls that request's onProgress
\* once and changes nothing else (the table, the timers, the queue and the
\* futures stay as they are); a progress event whose id is not pending calls
\* no callback at all.
C36_ProgressOnlyInvokesCallback ==
    [][\A m \in MsgIds :
          (m \in inbox /\ WorkerProgress(m))
            => /\ IF m \in pendingRequests /\ calls[CallOf(m)].onProgress
                  THEN calls' = [calls EXCEPT
                                    ![CallOf(m)].progressCalls = @ + 1]
                  ELSE UNCHANGED calls
               /\ UNCHANGED <<pendingRequests, messageQueue, future, posted,
                              inbox, attempts, isInitialized>>]_vars

\* One request has had its callback invoked; another, with a callback too,
\* timed out while the worker still works on it, and its callback was never
\* invoked.
C36_Witness ==
    \E c, d \in RegisteredCalls :
        /\ calls[c].progressCalls = 1
        /\ future[c] = "pending"
        /\ future[d] = "rejTimeout"
        /\ calls[d].onProgress
        /\ calls[d].progressCalls = 0
        /\ calls[d].id \in inbox

\* C37: when a store returns, the entries it evicted are the shortest prefix
\* of the entries in LRU order whose sizes cover the shortfall (the new bytes
\* minus the space that was available), or all of them when even that is not
\* enough; in particular nothing is evicted when the space sufficed.
C37_EvictsShortestLruPrefix ==
    (cacheEnabled /\ cc.op = "none" /\ ret.op = "store" /\ ret.status = "ok")
        => LET s == sortedModels(pre)
               shortfall == EntryOf(entries, ret.key).fileSize
                               - (MaxBytes - SumSizes(pre))
               PrefixSum(n) == SumSizes(SubSeq(s, 1, n))
           IN  \E n \in 0..Len(s) :
                  /\ evicted = {s[i].modelId : i \in 1..n}
                  /\ n > 0 => PrefixSum(n - 1) < shortfall
                  /\ PrefixSum(n) >= shortfall \/ n = Len(s)

\* A store has returned after evicting one entry and keeping another, more
\* recently used one.
C37_Witness ==
    /\ cacheEnabled
    /\ cc.op = "none" /\ ret.op = "store" /\ ret.status = "ok"
    /\ Len(pre) = 2
    /\ Cardinality(evicted) = 1
    /\ SumSizes(pre) = MaxBytes

\* C38: a store for a key that is already stored replaces that entry with
\* the new bytes, and when the resulting total (the old total minus the
\* replaced entry's size plus the new size) is within the maximum it evicts
\* no other entry, so that the stored keys are the same as before.
C38_ReplacingStoreEvictsNoOther ==
    (cacheEnabled /\ cc.op = "none" /\ ret.op = "store" /\ ret.status = "ok")
        => \A i \in 1..Len(pre) :
              pre[i].modelId = ret.key
                => /\ EntryOf(entries, ret.key).data = lastStored[ret.key]
                   /\ (SumSizes(pre) - pre[i].size
                          + EntryOf(entries, ret.key).fileSize <= MaxBytes)
                        => /\ evicted \subseteq {ret.key}
                           /\ StoredIds(entries)
                                 = {pre[j].modelId : j \in 1..Len(pre)}

\* C39: a dispose() called while an execute() call waits for initialization
\* leaves nothing behind: while the bridge has no worker (from dispose() to
\* the next initialize()) the pending table and the queue are empty, and a
\* call that waited for one worker's initialization registers its request
\* only while that worker is still the bridge's.
C39_DisposeMissesNoWaitingCall ==
    /\ [](worker = 0 => pendingRequests = {} /\ messageQueue = <<>>)
    /\ [][\A c \in Calls :
             (calls[c].pc = "await" /\ calls[c].wait # 0
                 /\ calls'[c].pc = "reg")
               => worker = calls[c].wait]_vars

====
